---- MODULE Spec2Model ----
(* A model of the cleaning pipeline of excel_cleaner_pro.py: the class      *)
(* ExcelCleaner (the six transformations, clean_excel_file, _create_backup, *)
(* _get_cleaned_filename, _get_dataframe_stats).                            *)
(*                                                                          *)
(* Text (str) is a sequence of one-character strings, so that strip, title, *)
(* replace and str() are computed character by character.                   *)
EXTENDS Integers, Sequences, FiniteSets, TLC

VARIABLES
    pc,             \* position of clean_excel_file: "backup", "load", "loop",
                    \* "callback", "save", "stats", "returned", "raised"
                    \* ("idle" before the window has called it)
    now,            \* the wall clock (datetime.now()), in whole seconds
    fs,             \* the file system: path -> file content, for existing files
    file_path,      \* argument file_path
    config,         \* argument config (CleaningConfig): flag name -> BOOLEAN
    has_callback,   \* argument progress_callback is not None
    backup_path,    \* local backup_path (<<>> while unassigned)
    cleaned_path,   \* local cleaned_path (<<>> while unassigned)
    df,             \* local df (the DataFrame)
    original_stats, \* local original_stats
    enabled_operations, \* local enabled_operations: the names, in list order
    i,              \* loop index of "for i, (...) in enumerate(...)"
    result,         \* the returned tuple, NoResult while nothing was returned
    raised,         \* the exception that left clean_excel_file, "" when none
    log,            \* the records written through self.logger
    trace,          \* history: every step attempted, in order
    other,          \* a second call of clean_excel_file on the same path,
                    \* running at the same time: its position, its config
                    \* and its locals (NoOtherRun when there is none)
    gui             \* the window of ExcelCleanerGUI: the position of
                    \* select_and_clean_file, the clean button, the progress
                    \* value and label, the status bar, the option
                    \* checkboxes (NoGui when the class is used without it)

vars == <<pc, now, fs, file_path, config, has_callback, backup_path,
          cleaned_path, df, original_stats, enabled_operations, i, result,
          raised, log, trace, other, gui>>

-----------------------------------------------------------------------------
(* Bounds of the model.                                                     *)

\* most data rows of an input sheet
MaxRows == 2
\* the clock runs over the seconds 0..MaxNow
MaxNow == 1
\* most data rows of a workbook the transformations are called on directly
MaxOpRows == 3
\* most direct calls of transformations in a row
MaxCalls == 2
MaxNameLen == 3
MaxScenarioRows == 2
MaxFlagChanges == 1
\* most cleaning runs started from the window
MaxRuns == 1

-----------------------------------------------------------------------------
(* Text.                                                                    *)

Range(s) == {s[k] : k \in DOMAIN s}

Max(S) == CHOOSE m \in S : \A x \in S : x <= m

\* str.lower() and str.upper() of one character
LowerCase == <<"a", "b", "c", "d", "e", "f", "g", "h", "i", "j", "k", "l", "m",
              "n", "o", "p", "q", "r", "s", "t", "u", "v", "w", "x", "y", "z">>
UpperCase == <<"A", "B", "C", "D", "E", "F", "G", "H", "I", "J", "K", "L", "M",
              "N", "O", "P", "Q", "R", "S", "T", "U", "V", "W", "X", "Y", "Z">>
LowerOf == [c \in Range(UpperCase) |->
               LowerCase[CHOOSE k \in DOMAIN UpperCase : UpperCase[k] = c]]
UpperOf == [c \in Range(LowerCase) |->
               UpperCase[CHOOSE k \in DOMAIN LowerCase : LowerCase[k] = c]]
Lower(c) == IF c \in DOMAIN LowerOf THEN LowerOf[c] ELSE c
Upper(c) == IF c \in DOMAIN UpperOf THEN UpperOf[c] ELSE c
IsCased(c) == c \in DOMAIN LowerOf \/ c \in DOMAIN UpperOf
IsSpace(c) == c = " "

\* str.strip(): drop the leading and the trailing whitespace
RECURSIVE LStrip(_)
LStrip(s) ==
    IF s # <<>> /\ IsSpace(Head(s)) THEN LStrip(Tail(s)) ELSE s

RECURSIVE RStrip(_)
RStrip(s) ==
    IF s # <<>> /\ IsSpace(s[Len(s)])
    THEN RStrip(SubSeq(s, 1, Len(s) - 1)) ELSE s

\* str.lstrip(): the leading whitespace only
StripLeft(s) == LStrip(s)

Strip(s) == RStrip(LStrip(s))

\* str.title(): a cased character is upper-cased when the character before
\* it is not cased (or there is none), lower-cased otherwise
Title(s) ==
    [k \in DOMAIN s |->
        IF ~IsCased(s[k]) THEN s[k]
        ELSE IF k > 1 /\ IsCased(s[k - 1]) THEN Lower(s[k])
        ELSE Upper(s[k])]

\* str.replace(old, new): every non-overlapping occurrence, left to right
StartsWith(s, p) == Len(s) >= Len(p) /\ SubSeq(s, 1, Len(p)) = p

RECURSIVE Replace(_, _, _)
Replace(s, old, new) ==
    IF s = <<>> THEN <<>>
    ELSE IF StartsWith(s, old)
         THEN new \o Replace(SubSeq(s, Len(old) + 1, Len(s)), old, new)
         ELSE <<Head(s)>> \o Replace(Tail(s), old, new)

\* str(n) of a non-negative int
Digit == <<"0", "1", "2", "3", "4", "5", "6", "7", "8", "9">>

RECURSIVE IntStr(_)
IntStr(n) ==
    IF n < 10 THEN <<Digit[n + 1]>>
    ELSE Append(IntStr(n \div 10), Digit[(n % 10) + 1])

-----------------------------------------------------------------------------
(* Cells and DataFrames.                                                    *)

\* A cell is the null marker (NaN), a number or a text.
NaN == [k |-> "nan", n |-> 0, s |-> <<>>]
Num(n) == [k |-> "num", n |-> n, s |-> <<>>]
Str(s) == [k |-> "str", n |-> 0, s |-> s]

IsNull(c) == c.k = "nan"

\* str(cell), as Series.astype(str) applies it to each cell of a column
AsStr(c) ==
    IF c.k = "str" THEN c.s
    ELSE IF c.k = "num" THEN IntStr(c.n)
    ELSE <<"n", "a", "n">>

\* A DataFrame: the column names, the dtype of each column, and the rows
\* (each a sequence of cells, one per column).
EmptyFrame == [names |-> <<>>, dtypes |-> <<>>, rows |-> <<>>]

NCols(d) == Len(d.names)
NRows(d) == Len(d.rows)
Column(d, c) == [r \in 1..NRows(d) |-> d.rows[r][c]]

\* the subsequence of s at the indices in I, in increasing order
RECURSIVE SelectIdx(_, _)
SelectIdx(s, I) ==
    IF I = {} THEN <<>>
    ELSE LET m == Max(I) IN Append(SelectIdx(s, I \ {m}), s[m])

-----------------------------------------------------------------------------
(* The six transformations (ExcelCleaner.remove_duplicates ..               *)
(* ExcelCleaner.title_case_cells). Each takes a DataFrame and returns a new *)
(* one; the record it writes to the log is given by OpLogCount.             *)

\* DataFrame.drop_duplicates(): rows are scanned first to last against the
\* rows seen so far (NaN counts as equal to NaN); a row seen before is
\* dropped. A frame without rows or without columns is returned as it is.
RECURSIVE DropDupScan(_, _, _)
DropDupScan(rows, seen, acc) ==
    IF rows = <<>> THEN acc
    ELSE IF Head(rows) \in seen
         THEN DropDupScan(Tail(rows), seen, acc)
         ELSE DropDupScan(Tail(rows), seen \cup {Head(rows)},
                          Append(acc, Head(rows)))

Reverse(s) == [k \in 1..Len(s) |-> s[Len(s) + 1 - k]]

\* drop_duplicates(keep="last")
remove_duplicates_keep_last(d) ==
    IF NRows(d) = 0 \/ NCols(d) = 0 THEN d
    ELSE [d EXCEPT !.rows = Reverse(DropDupScan(Reverse(d.rows), {}, <<>>))]

\* only the first repeated row found is dropped
RECURSIVE DropFirstDup(_, _, _)
DropFirstDup(rows, seen, acc) ==
    IF rows = <<>> THEN acc
    ELSE IF Head(rows) \in seen
         THEN acc \o Tail(rows)
         ELSE DropFirstDup(Tail(rows), seen \cup {Head(rows)},
                           Append(acc, Head(rows)))

remove_duplicates_one_per_call(d) ==
    IF NRows(d) = 0 \/ NCols(d) = 0 THEN d
    ELSE [d EXCEPT !.rows = DropFirstDup(d.rows, {}, <<>>)]

remove_duplicates(d) ==
    IF NRows(d) = 0 \/ NCols(d) = 0 THEN d
    ELSE [d EXCEPT !.rows = DropDupScan(d.rows, {}, <<>>)]

\* dropna(how="any"): keep the rows without a null cell
remove_empty_rows_any(d) ==
    LET keep == {r \in 1..NRows(d) :
                    \A c \in 1..NCols(d) : ~IsNull(d.rows[r][c])}
    IN [d EXCEPT !.rows = SelectIdx(d.rows, keep)]

\* DataFrame.dropna(how="all"): keep the rows with a non-null cell
remove_empty_rows(d) ==
    LET keep == {r \in 1..NRows(d) :
                    \E c \in 1..NCols(d) : ~IsNull(d.rows[r][c])}
    IN [d EXCEPT !.rows = SelectIdx(d.rows, keep)]

\* DataFrame.dropna(axis=1, how="all"): keep the columns with a non-null cell
remove_empty_columns(d) ==
    LET keep == {c \in 1..NCols(d) :
                    \E r \in 1..NRows(d) : ~IsNull(d.rows[r][c])}
    IN [names  |-> SelectIdx(d.names, keep),
        dtypes |-> SelectIdx(d.dtypes, keep),
        rows   |-> [r \in 1..NRows(d) |-> SelectIdx(d.rows[r], keep)]]

\* df[col] is a Series only when the label col names one column: with a
\* repeated label it is a DataFrame, which has no attribute dtype, and the
\* loop over df.columns raises AttributeError.
HasRepeatedLabel(d) ==
    \E a, b \in 1..NCols(d) : a # b /\ d.names[a] = d.names[b]

\* every text of every object column is stripped (.str.strip() without
\* astype(str)): a cell that is no text stays as it is
trim_spaces_texts_only(d) ==
    [d EXCEPT !.rows =
        [r \in 1..NRows(d) |->
            [c \in 1..NCols(d) |->
                IF d.dtypes[c] = "object" /\ d.rows[r][c].k = "str"
                THEN Str(Strip(d.rows[r][c].s))
                ELSE d.rows[r][c]]]]

\* every cell of every object column becomes repr(cell).strip(): the text
\* form in quotes
trim_spaces_repr(d) ==
    [d EXCEPT !.rows =
        [r \in 1..NRows(d) |->
            [c \in 1..NCols(d) |->
                IF d.dtypes[c] = "object"
                THEN Str(Strip(<<"'">> \o AsStr(d.rows[r][c]) \o <<"'">>))
                ELSE d.rows[r][c]]]]

\* every cell of every object column becomes str(cell).strip()
trim_spaces(d) ==
    [d EXCEPT !.rows =
        [r \in 1..NRows(d) |->
            [c \in 1..NCols(d) |->
                IF d.dtypes[c] = "object"
                THEN Str(Strip(AsStr(d.rows[r][c])))
                ELSE d.rows[r][c]]]]

\* str(col).strip().title().replace('_', ' ') of one column name
NormalizeName(name) == Replace(Title(Strip(name)), <<"_">>, <<" ">>)

\* the renamed columns added next to the old ones
normalize_column_names_adding(d) ==
    LET changed == {c \in 1..NCols(d) : NormalizeName(d.names[c]) # d.names[c]}
    IN [names  |-> d.names \o SelectIdx([c \in 1..NCols(d) |->
                                            NormalizeName(d.names[c])], changed),
        dtypes |-> d.dtypes \o SelectIdx(d.dtypes, changed),
        rows   |-> [r \in 1..NRows(d) |->
                       d.rows[r] \o SelectIdx(d.rows[r], changed)]]

normalize_column_names(d) ==
    [d EXCEPT !.names = [c \in 1..NCols(d) |-> NormalizeName(d.names[c])]]

\* every cell of every column becomes str(cell).title(), whatever the dtype
title_case_cells_every_column(d) ==
    [d EXCEPT !.rows =
        [r \in 1..NRows(d) |->
            [c \in 1..NCols(d) |-> Str(Title(AsStr(d.rows[r][c])))]]]

\* every cell of every object column becomes str(cell).title()
title_case_cells(d) ==
    [d EXCEPT !.rows =
        [r \in 1..NRows(d) |->
            [c \in 1..NCols(d) |->
                IF d.dtypes[c] = "object"
                THEN Str(Title(AsStr(d.rows[r][c])))
                ELSE d.rows[r][c]]]]

-----------------------------------------------------------------------------
(* _get_dataframe_stats                                                     *)

get_dataframe_stats(d) ==
    [rows        |-> NRows(d),
     columns     |-> NCols(d),
     cells       |-> NRows(d) * NCols(d),
     empty_cells |-> Cardinality({rc \in (1..NRows(d)) \X (1..NCols(d)) :
                                     IsNull(d.rows[rc[1]][rc[2]])}),
     data_types  |-> [t \in Range(d.dtypes) |->
                         Cardinality({c \in 1..NCols(d) : d.dtypes[c] = t})]]

NoStats == [rows |-> 0, columns |-> 0, cells |-> 0, empty_cells |-> 0,
            data_types |-> <<>>]

-----------------------------------------------------------------------------
(* Files. A file is a workbook (kind "xlsx": the header row and the data    *)
(* rows of its first sheet, NaN standing for an empty cell) or something    *)
(* that is no workbook (kind "garbage").                                    *)

Workbook(header, rows) == [kind |-> "xlsx", header |-> header, rows |-> rows]
Garbage == [kind |-> "garbage", header |-> <<>>, rows |-> <<>>]

IsBlankRow(row) == \A c \in DOMAIN row : IsNull(row[c])

\* the reader drops the blank rows that end the sheet
RECURSIVE TrimTrailingBlank(_)
TrimTrailingBlank(rows) ==
    IF rows # <<>> /\ IsBlankRow(rows[Len(rows)])
    THEN TrimTrailingBlank(SubSeq(rows, 1, Len(rows) - 1)) ELSE rows

\* the dtype pandas infers for a column of parsed cells
InferDtype(cells) ==
    IF cells = <<>> THEN "object"
    ELSE IF \E k \in DOMAIN cells : cells[k].k = "str" THEN "object"
    ELSE IF \E k \in DOMAIN cells : cells[k].k = "nan" THEN "float64"
    ELSE "int64"

\* pd.read_excel(file_path) of a workbook
read_excel(file) ==
    LET rows == TrimTrailingBlank(file.rows)
        n    == Len(file.header)
    IN [names  |-> file.header,
        dtypes |-> [c \in 1..n |->
                       InferDtype([r \in 1..Len(rows) |-> rows[r][c]])],
        rows   |-> rows]

\* df.to_excel(cleaned_path): index=True, the default, writes the row labels
\* as a first column
to_excel_with_index(d) ==
    Workbook(<< <<>> >> \o d.names,
             [r \in 1..NRows(d) |-> <<Num(r - 1)>> \o d.rows[r]])

\* df.to_excel(cleaned_path, index=False): the column labels as the header
\* row, then one sheet row per row of df; NaN is written as an empty cell.
\* A frame without columns writes no cell at all.
to_excel(d) ==
    Workbook(d.names, IF NCols(d) = 0 THEN <<>> ELSE d.rows)

\* fs with the file at path p created, an existing file left as it is
WriteFileExclusive(f, p, content) ==
    [q \in DOMAIN f \cup {p} |-> IF q = p /\ p \notin DOMAIN f
                                  THEN content ELSE f[q]]

\* fs with the file at path p written (created or replaced)
WriteFile(f, p, content) ==
    [q \in DOMAIN f \cup {p} |-> IF q = p THEN content ELSE f[q]]

-----------------------------------------------------------------------------
(* Paths and timestamps (_create_backup, _get_cleaned_filename)             *)

DotXlsx == <<".", "x", "l", "s", "x">>

TwoDigits(n) == <<Digit[(n \div 10) + 1], Digit[(n % 10) + 1]>>

\* datetime.strftime("%Y%m%d_%H%M%S") of the clock value t, t counting the
\* seconds since 2026-01-01 00:00:00 (the first hour of that day)
strftime(t) ==
    <<"2", "0", "2", "6", "0", "1", "0", "1", "_", "0", "0">>
        \o TwoDigits((t \div 60) % 60) \o TwoDigits(t % 60)

\* file_path.replace(".xlsx", f"_backup_{timestamp}.xlsx")
backup_name(path, timestamp) ==
    Replace(path, DotXlsx,
            <<"_", "b", "a", "c", "k", "u", "p", "_">> \o timestamp \o DotXlsx)

\* the cleaned file named like the backup
get_cleaned_filename_as_backup(path, timestamp) ==
    backup_name(path, timestamp)

\* file_path.replace(".xlsx", f"_cleaned_{timestamp}.xlsx")
get_cleaned_filename(path, timestamp) ==
    Replace(path, DotXlsx,
            <<"_", "c", "l", "e", "a", "n", "e", "d", "_">> \o timestamp
                \o DotXlsx)

-----------------------------------------------------------------------------
(* clean_excel_file                                                         *)

\* the list with trim_spaces ahead of remove_duplicates
OperationNamesTrimFirst ==
    <<"trim_spaces", "remove_duplicates", "remove_empty_rows",
      "remove_empty_columns", "normalize_column_names", "title_case_cells">>

\* the names of the list "operations", in its order
OperationNames ==
    <<"remove_duplicates", "remove_empty_rows", "remove_empty_columns",
      "trim_spaces", "normalize_column_names", "title_case_cells">>

\* the list "operations": (name, func, enabled) for each transformation,
\* enabled read from the configuration when the list is built
operations(cfg) ==
    [k \in DOMAIN OperationNames |->
        [name |-> OperationNames[k], enabled |-> cfg[OperationNames[k]]]]

\* the flag of the operation as the configuration holds it at this moment
IsEnabledInConfig(op) == config[op.name]

\* the third component of the operation's tuple: op[2] in the filter, the
\* loop variable "enabled" in "if enabled:"
IsEnabled(op) == op.enabled

\* the list without the filter
enabled_of_unfiltered(cfg) == operations(cfg)

\* enabled_operations = [op for op in operations if op[2]]
enabled_of(cfg) == SelectSeq(operations(cfg), IsEnabled)

total_ops == Len(enabled_operations)

\* func(df) for the function of the operation called name
Apply(name, d) ==
    CASE name = "remove_duplicates"      -> remove_duplicates(d)
      [] name = "remove_empty_rows"      -> remove_empty_rows(d)
      [] name = "remove_empty_columns"   -> remove_empty_columns(d)
      [] name = "trim_spaces"            -> trim_spaces(d)
      [] name = "normalize_column_names" -> normalize_column_names(d)
      [] name = "title_case_cells"       -> title_case_cells(d)

\* the functions that read df[col].dtype for every column label
ReadsColumnDtype(name) == name \in {"trim_spaces", "title_case_cells"}

\* the number in the message the function logs (0 when it logs none)
OpLogCount(name, before, after) ==
    CASE name = "remove_duplicates"      -> NRows(before) - NRows(after)
      [] name = "remove_empty_rows"      -> NRows(before) - NRows(after)
      [] name = "remove_empty_columns"   -> NCols(before) - NCols(after)
      [] name = "normalize_column_names" -> NCols(before)
      [] OTHER                           -> 0

\* the percentage computed from i in place of i + 1
PercentOfIndex(done, total) == ((done - 1) * 100) \div total

\* int((i + 1) / total_ops * 100): the quotient is a float; for the totals
\* 1..6 the list can have, the truncated product equals the integer
\* quotient of (i + 1) * 100 by the total
Percent(done, total) == (done * 100) \div total

LogRecord(level, msg, n) == [level |-> level, msg |-> msg, n |-> n]
\* a step of the run, as the history records it: err is the exception the
\* step ended with, "" when it completed
Step(kind, name, val, err) ==
    [kind |-> kind, name |-> name, val |-> val, err |-> err]

NoResult == [returned |-> FALSE, backup_path |-> <<>>, cleaned_path |-> <<>>,
             statistics |-> [original |-> NoStats, final |-> NoStats,
                             operations_applied |-> <<>>]]

\* no second call
NoOtherRun == [pc |-> "none"]

\* no window
NoGui == [pc |-> "none"]

\* a handler that logs a failed backup and lets the run go on
FailKeepsGoing(kind, name, val, e, records) ==
    /\ pc' = IF kind = "backup" THEN "load" ELSE "raised"
    /\ raised' = IF kind = "backup" THEN raised ELSE e
    /\ log' = log \o records \o <<LogRecord("ERROR", e, 0)>>
    /\ trace' = Append(trace, Step(kind, name, val, e))

\* a handler that logs the error and leaves the run at the failed step
FailRetries(kind, name, val, e, records) ==
    /\ pc' = pc
    /\ raised' = raised
    /\ log' = log \o records \o <<LogRecord("ERROR", e, 0)>>
    /\ trace' = Append(trace, Step(kind, name, val, e))

\* the handler "except Exception as e": one error record, then raise
Fail(kind, name, val, e, records) ==
    /\ pc' = "raised"
    /\ raised' = e
    /\ log' = log \o records \o <<LogRecord("ERROR", e, 0)>>
    /\ trace' = Append(trace, Step(kind, name, val, e))

\* the hook called once, after the last operation only
CallsBackAfterLastOnly == has_callback /\ i + 1 = total_ops

\* the test "if progress_callback:"
CallsBack == has_callback

\* where the for loop goes once k operations are done
AfterOperation(k) == IF k >= total_ops THEN "save" ELSE "loop"

\* backup_path = self._create_backup(file_path)
CreateBackup ==
    /\ pc = "backup"
    /\ \E t \in now..MaxNow :
         LET target == backup_name(file_path, strftime(t)) IN
         /\ now' = t
         /\ \/ /\ file_path \notin DOMAIN fs
               /\ Fail("backup", "", 0, "FileNotFoundError", <<>>)
               /\ UNCHANGED <<fs, backup_path>>
            \/ /\ file_path \in DOMAIN fs
               /\ target = file_path
               /\ Fail("backup", "", 0, "SameFileError", <<>>)
               /\ UNCHANGED <<fs, backup_path>>
            \/ /\ file_path \in DOMAIN fs
               /\ target # file_path
               /\ \/ /\ fs' = WriteFile(fs, target, fs[file_path])
                     /\ backup_path' = target
                     /\ pc' = "load"
                     /\ trace' = Append(trace, Step("backup", "", 0, ""))
                     /\ UNCHANGED <<raised, log>>
                  \/ \* the copy fails (no space, no permission), with the
                     \* target not created or left incomplete
                     /\ fs' \in {fs, WriteFile(fs, target, Garbage)}
                     /\ Fail("backup", "", 0, "OSError", <<>>)
                     /\ UNCHANGED backup_path
    /\ UNCHANGED <<file_path, config, has_callback, cleaned_path, df,
                   original_stats, enabled_operations, i, result>>
    /\ UNCHANGED other
    /\ UNCHANGED gui

\* df = pd.read_excel(file_path); original_stats; operations;
\* enabled_operations; total_ops
Load ==
    /\ pc = "load"
    /\ LET loading == <<LogRecord("INFO", "Loading Excel file", 0)>> IN
       \/ /\ file_path \in DOMAIN fs
          /\ fs[file_path].kind = "xlsx"
          /\ df' = read_excel(fs[file_path])
          /\ original_stats' = get_dataframe_stats(df')
          /\ enabled_operations' = enabled_of(config)
          /\ i' = 0
          /\ pc' = IF enabled_operations' = <<>> THEN "save" ELSE "loop"
          /\ log' = log \o loading
          /\ trace' = Append(trace, Step("load", "", 0, ""))
          /\ UNCHANGED raised
       \/ /\ file_path \in DOMAIN fs
          /\ fs[file_path].kind # "xlsx"
          /\ Fail("load", "", 0, "ValueError", loading)
          /\ UNCHANGED <<df, original_stats, enabled_operations, i>>
       \/ /\ Fail("load", "", 0, "OSError", loading)
          /\ UNCHANGED <<df, original_stats, enabled_operations, i>>
    /\ UNCHANGED <<now, fs, file_path, config, has_callback, backup_path,
                   cleaned_path, result>>
    /\ UNCHANGED other
    /\ UNCHANGED gui

\* the loop body up to the callback: if enabled: df = func(df)
ApplyOperation ==
    /\ pc = "loop"
    /\ i < total_ops
    /\ LET op == enabled_operations[i + 1] IN
       \/ /\ IsEnabled(op)
          /\ ~(ReadsColumnDtype(op.name) /\ HasRepeatedLabel(df))
          /\ df' = Apply(op.name, df)
          /\ log' = Append(log, LogRecord("INFO", op.name,
                                          OpLogCount(op.name, df, df')))
          /\ trace' = Append(trace, Step("op", op.name, 0, ""))
          /\ IF CallsBack
             THEN pc' = "callback" /\ i' = i
             ELSE pc' = AfterOperation(i + 1) /\ i' = i + 1
          /\ UNCHANGED raised
       \/ /\ IsEnabled(op)
          /\ ReadsColumnDtype(op.name) /\ HasRepeatedLabel(df)
          /\ Fail("op", op.name, 0, "AttributeError", <<>>)
          /\ UNCHANGED <<df, i>>
       \/ \* the function runs out of memory copying the frame
          /\ IsEnabled(op)
          /\ Fail("op", op.name, 0, "MemoryError", <<>>)
          /\ UNCHANGED <<df, i>>
       \/ /\ ~IsEnabled(op)
          /\ pc' = AfterOperation(i + 1) /\ i' = i + 1
          /\ UNCHANGED <<df, log, trace, raised>>
    /\ UNCHANGED <<now, fs, file_path, config, has_callback, backup_path,
                   cleaned_path, original_stats, enabled_operations, result>>
    /\ UNCHANGED other
    /\ UNCHANGED gui

\* if progress_callback: progress_callback(int((i + 1) / total_ops * 100))
ProgressCallback ==
    /\ pc = "callback"
    /\ LET value == Percent(i + 1, total_ops) IN
       \/ /\ trace' = Append(trace, Step("callback", "", value, ""))
          /\ pc' = AfterOperation(i + 1)
          /\ i' = i + 1
          /\ UNCHANGED <<raised, log>>
       \/ \* the callback raises
          /\ Fail("callback", "", value, "CallbackError", <<>>)
          /\ UNCHANGED i
    /\ UNCHANGED <<now, fs, file_path, config, has_callback, backup_path,
                   cleaned_path, df, original_stats, enabled_operations,
                   result>>
    /\ UNCHANGED other
    /\ UNCHANGED gui

\* the flags the hook has changed so far, as the history records them
IsFlagChange(e) == e.kind = "setflag"
FlagChanges == SelectSeq(trace, IsFlagChange)

\* progress_callback(...) with a hook that holds the configuration object
\* and assigns the opposite value to one of its flags before it returns
ProgressCallbackChangingFlag ==
    /\ pc = "callback"
    /\ Len(FlagChanges) < MaxFlagChanges
    /\ \E f \in DOMAIN config :
         /\ config' = [config EXCEPT ![f] = ~config[f]]
         /\ trace' = trace \o
                <<Step("callback", "", Percent(i + 1, total_ops), ""),
                  Step("setflag", f, 0, "")>>
    /\ pc' = AfterOperation(i + 1)
    /\ i' = i + 1
    /\ UNCHANGED <<now, fs, file_path, has_callback, backup_path,
                   cleaned_path, df, original_stats, enabled_operations,
                   result, raised, log>>
    /\ UNCHANGED other
    /\ UNCHANGED gui

\* cleaned_path = self._get_cleaned_filename(file_path);
\* df.to_excel(cleaned_path, index=False)
Save ==
    /\ pc = "save"
    /\ \E t \in now..MaxNow :
         LET target == get_cleaned_filename(file_path, strftime(t)) IN
         /\ now' = t
         /\ cleaned_path' = target
         /\ \/ /\ fs' = WriteFile(fs, target, to_excel(df))
               /\ pc' = "stats"
               /\ trace' = Append(trace, Step("save", "", 0, ""))
               /\ UNCHANGED <<raised, log>>
            \/ \* the write fails, with the target not created or left
               \* incomplete
               /\ fs' \in {fs, WriteFile(fs, target, Garbage)}
               /\ Fail("save", "", 0, "OSError", <<>>)
    /\ UNCHANGED <<file_path, config, has_callback, backup_path, df,
                   original_stats, enabled_operations, i, result>>
    /\ UNCHANGED other
    /\ UNCHANGED gui

\* final_stats; statistics; the info record; return
Return ==
    /\ pc = "stats"
    /\ result' =
         [returned     |-> TRUE,
          backup_path  |-> backup_path,
          cleaned_path |-> cleaned_path,
          statistics   |->
             [original |-> original_stats,
              final    |-> get_dataframe_stats(df),
              operations_applied |->
                 [k \in DOMAIN enabled_operations |->
                     enabled_operations[k].name]]]
    /\ log' = Append(log, LogRecord("INFO", "Successfully cleaned file", 0))
    /\ trace' = Append(trace, Step("return", "", 0, ""))
    /\ pc' = "returned"
    /\ UNCHANGED <<now, fs, file_path, config, has_callback, backup_path,
                   cleaned_path, df, original_stats, enabled_operations, i,
                   raised>>
    /\ UNCHANGED other
    /\ UNCHANGED gui

-----------------------------------------------------------------------------
(* The calls of clean_excel_file the model explores.                        *)

Flags == Range(OperationNames)
Configs == [Flags -> BOOLEAN]

\* the input paths: one with the extension .xlsx, one with .xls
InputPaths == {<<"d">> \o DotXlsx, <<"d", ".", "x", "l", "s">>}

\* the header rows of the input sheets (two columns; the labels of the
\* second header differ only in case)
InputHeaders == {<< <<"a", "_", "b">>, <<"n">> >>, << <<"a">>, <<"A">> >>}

\* the rows of the input sheets: a text or nothing in the first column, a
\* number or nothing in the second
InputRows == {<<x, y>> : x \in {NaN, Str(<<" ", "a", "b">>)},
                         y \in {NaN, Num(1)}}

RECURSIVE SeqsUpTo(_, _)
SeqsUpTo(S, n) ==
    IF n = 0 THEN {<<>>}
    ELSE LET shorter == SeqsUpTo(S, n - 1)
         IN shorter \cup {Append(s, x) : s \in {q \in shorter : Len(q) = n - 1},
                                         x \in S}

InputSheets ==
    {Workbook(h, rows) : h \in InputHeaders, rows \in SeqsUpTo(InputRows, MaxRows)}

\* the file system before the call: the input file is missing, is no
\* workbook, or is one of the input sheets
InitialFs(path) ==
    {<<>>} \cup {WriteFile(<<>>, path, f) : f \in {Garbage} \cup InputSheets}

Init ==
    /\ pc = "backup"
    /\ now = 0
    /\ file_path \in InputPaths
    /\ fs \in InitialFs(file_path)
    /\ config \in Configs
    /\ has_callback \in BOOLEAN
    /\ backup_path = <<>>
    /\ cleaned_path = <<>>
    /\ df = EmptyFrame
    /\ original_stats = NoStats
    /\ enabled_operations = <<>>
    /\ i = 0
    /\ result = NoResult
    /\ raised = ""
    /\ log = <<>>
    /\ trace = <<>>
    /\ other = NoOtherRun
    /\ gui = NoGui

Next ==
    \/ CreateBackup
    \/ Load
    \/ ApplyOperation
    \/ ProgressCallback
    \/ Save
    \/ Return

Spec == Init /\ [][Next]_vars

(* Calls of clean_excel_file on sheets with the columns Name and Val: the  *)
(* four-row sheet of the end-to-end scenario, and every sheet of up to     *)
(* MaxScenarioRows rows drawn from rows that differ in the whitespace      *)
(* around the name only, a blank row and a row with another name.          *)
ScenarioHeader == << <<"N", "a", "m", "e">>, <<"V", "a", "l">> >>

EndToEndSheet ==
    Workbook(ScenarioHeader,
             << <<Str(<<"a">>), Num(1)>>,
                <<Str(<<"a">>), Num(1)>>,
                <<NaN, NaN>>,
                <<Str(<<" ", "b", " ">>), Num(2)>> >>)

EndToEndConfig ==
    [f \in Flags |->
        f \in {"remove_duplicates", "remove_empty_rows", "trim_spaces"}]

ScenarioRows ==
    { <<Str(<<"a">>), Num(1)>>,
      <<Str(<<" ", "a", " ">>), Num(1)>>,
      <<NaN, NaN>>,
      <<Str(<<" ", "b", " ">>), Num(2)>> }

ScenarioSheets ==
    {EndToEndSheet} \cup
    {Workbook(ScenarioHeader, rows) :
        rows \in SeqsUpTo(ScenarioRows, MaxScenarioRows)}

ScenarioInit ==
    /\ pc = "backup"
    /\ now = 0
    /\ file_path = <<"d">> \o DotXlsx
    /\ fs \in {WriteFile(<<>>, file_path, f) : f \in ScenarioSheets}
    /\ config \in Configs
    /\ has_callback \in BOOLEAN
    /\ backup_path = <<>>
    /\ cleaned_path = <<>>
    /\ df = EmptyFrame
    /\ original_stats = NoStats
    /\ enabled_operations = <<>>
    /\ i = 0
    /\ result = NoResult
    /\ raised = ""
    /\ log = <<>>
    /\ trace = <<>>
    /\ other = NoOtherRun
    /\ gui = NoGui

SpecScenario == ScenarioInit /\ [][Next]_vars

(* Calls of clean_excel_file on the end-to-end sheet with a hook that may  *)
(* change flags of the configuration object, MaxFlagChanges times a run.   *)
FlagChangeInit ==
    /\ pc = "backup"
    /\ now = 0
    /\ file_path = <<"d">> \o DotXlsx
    /\ fs = WriteFile(<<>>, file_path, EndToEndSheet)
    /\ config \in Configs
    /\ has_callback = TRUE
    /\ backup_path = <<>>
    /\ cleaned_path = <<>>
    /\ df = EmptyFrame
    /\ original_stats = NoStats
    /\ enabled_operations = <<>>
    /\ i = 0
    /\ result = NoResult
    /\ raised = ""
    /\ log = <<>>
    /\ trace = <<>>
    /\ other = NoOtherRun
    /\ gui = NoGui

FlagChangeNext ==
    \/ CreateBackup
    \/ Load
    \/ ApplyOperation
    \/ ProgressCallback
    \/ ProgressCallbackChangingFlag
    \/ Save
    \/ Return

SpecFlagChange == FlagChangeInit /\ [][FlagChangeNext]_vars

-----------------------------------------------------------------------------
(* The six transformations called directly, one after the other, on a frame *)
(* loaded from a workbook (pc = "call"): df is the argument of each call    *)
(* and takes its result; trace records the calls.                           *)

\* the rows of these workbooks: a text, a number or nothing in the first
\* column, a number or nothing in the second
OpsRows == {<<x, y>> : x \in {NaN, Str(<<" ", "a", "b">>), Str(<<"a", "b">>),
                              Num(1)},
                       y \in {NaN, Num(1)}}

OpsSheets ==
    {Workbook(h, rows) : h \in InputHeaders,
                         rows \in SeqsUpTo(OpsRows, MaxOpRows)}

OpsInit ==
    /\ pc = "call"
    /\ now = 0
    /\ file_path = <<"d">> \o DotXlsx
    /\ fs \in {WriteFile(<<>>, file_path, f) : f \in OpsSheets}
    /\ config = [f \in Flags |-> FALSE]
    /\ has_callback = FALSE
    /\ backup_path = <<>>
    /\ cleaned_path = <<>>
    /\ df = read_excel(fs[file_path])
    /\ original_stats = get_dataframe_stats(df)
    /\ enabled_operations = <<>>
    /\ i = 0
    /\ result = NoResult
    /\ raised = ""
    /\ log = <<>>
    /\ trace = <<>>
    /\ other = NoOtherRun
    /\ gui = NoGui

\* df = self.<name>(df), for any of the six methods
CallTransformation ==
    /\ pc = "call"
    /\ Len(trace) < MaxCalls
    /\ \E name \in Flags :
         IF ReadsColumnDtype(name) /\ HasRepeatedLabel(df)
         THEN /\ pc' = "raised"
              /\ raised' = "AttributeError"
              /\ trace' = Append(trace, Step("op", name, 0, "AttributeError"))
              /\ UNCHANGED <<df, log>>
         ELSE /\ df' = Apply(name, df)
              /\ log' = Append(log, LogRecord("INFO", name,
                                              OpLogCount(name, df, df')))
              /\ trace' = Append(trace, Step("op", name, 0, ""))
              /\ UNCHANGED <<pc, raised>>
    /\ UNCHANGED <<now, fs, file_path, config, has_callback, backup_path,
                   cleaned_path, original_stats, enabled_operations, i,
                   result>>
    /\ UNCHANGED other
    /\ UNCHANGED gui

SpecOps == OpsInit /\ [][CallTransformation]_vars

(* The transformations called on a frame of one column and no row, the     *)
(* column label drawn from the texts of up to MaxNameLen characters (a     *)
(* lower-case and an upper-case letter, the underscore, the space) and     *)
(* from the longer label "first_name ".                                    *)
NameChars == {"a", "B", "_", " "}

RECURSIVE TextsOfLen(_)
TextsOfLen(n) ==
    IF n = 0 THEN {<<>>}
    ELSE {Append(t, c) : t \in TextsOfLen(n - 1), c \in NameChars}

FirstNameLabel == <<"f", "i", "r", "s", "t", "_", "n", "a", "m", "e", " ">>

NameInputs ==
    UNION {TextsOfLen(n) : n \in 1..MaxNameLen} \cup {FirstNameLabel}

NamesInit ==
    /\ pc = "call"
    /\ now = 0
    /\ file_path = <<"d">> \o DotXlsx
    /\ fs \in {WriteFile(<<>>, file_path, Workbook(<<name>>, <<>>)) :
                  name \in NameInputs}
    /\ config = [f \in Flags |-> FALSE]
    /\ has_callback = FALSE
    /\ backup_path = <<>>
    /\ cleaned_path = <<>>
    /\ df = read_excel(fs[file_path])
    /\ original_stats = get_dataframe_stats(df)
    /\ enabled_operations = <<>>
    /\ i = 0
    /\ result = NoResult
    /\ raised = ""
    /\ log = <<>>
    /\ trace = <<>>
    /\ other = NoOtherRun
    /\ gui = NoGui

SpecNames == NamesInit /\ [][CallTransformation]_vars

-----------------------------------------------------------------------------
(* What the properties below read off a state.                              *)

IsPrefix(a, b) == Len(a) <= Len(b) /\ SubSeq(b, 1, Len(a)) = a
Last(s) == s[Len(s)]
NamesOf(steps) == [k \in DOMAIN steps |-> steps[k].name]
ValuesOf(steps) == [k \in DOMAIN steps |-> steps[k].val]

IsOpStep(e) == e.kind = "op"
IsCompletedOp(e) == e.kind = "op" /\ e.err = ""
IsCallbackStep(e) == e.kind = "callback"
IsOpOrCallback(e) == e.kind \in {"op", "callback"}

\* the transformations called so far, and those that completed
OpSteps == SelectSeq(trace, IsOpStep)
CompletedOps == SelectSeq(trace, IsCompletedOp)
\* the calls of the progress hook so far
CallbackSteps == SelectSeq(trace, IsCallbackStep)

\* the fixed order of the six transformations, as the specification lists it
ClaimedOrder ==
    <<"remove_duplicates", "remove_empty_rows", "remove_empty_columns",
      "trim_spaces", "normalize_column_names", "title_case_cells">>

\* the names of ClaimedOrder whose flag is set in cfg, in that order
RECURSIVE FilterByFlags(_, _)
FilterByFlags(names, cfg) ==
    IF names = <<>> THEN <<>>
    ELSE IF cfg[Head(names)]
         THEN <<Head(names)>> \o FilterByFlags(Tail(names), cfg)
         ELSE FilterByFlags(Tail(names), cfg)

\* the number of flags set in the configuration
NumEnabled == Cardinality({f \in Flags : config[f]})

\* the frame pd.read_excel gives for the input file
LoadedFrame == read_excel(fs[file_path])

\* the transformations called names applied to d, first to last
RECURSIVE ApplyAll(_, _)
ApplyAll(names, d) ==
    IF names = <<>> THEN d ELSE ApplyAll(Tail(names), Apply(Head(names), d))

Returned == pc = "returned"

-----------------------------------------------------------------------------
(* C1: the transformations run in the fixed order remove_duplicates,        *)
(* remove_empty_rows, remove_empty_columns, trim_spaces,                    *)
(* normalize_column_names, title_case_cells, filtered to the flags that are *)
(* set: at every point of a run the transformations called so far are a     *)
(* prefix of that filtered list (so each enabled one is called at most once *)
(* and no disabled one ever); once the loop is over all of them have        *)
(* completed and df is the loaded frame with exactly these applied in this  *)
(* order; and statistics['operations_applied'] of the returned value is the *)
(* filtered list.                                                           *)
C1_OperationsInFixedOrder ==
    LET want == FilterByFlags(ClaimedOrder, config) IN
    /\ IsPrefix(NamesOf(OpSteps), want)
    /\ pc \in {"save", "stats", "returned"} =>
          /\ NamesOf(CompletedOps) = want
          /\ df = ApplyAll(want, LoadedFrame)
    /\ Returned => result.statistics.operations_applied = want

\* a run that returned with three of the flags set and three not set, the
\* three transformations having changed the frame
C1_Witness ==
    /\ Returned
    /\ config["remove_duplicates"] /\ config["trim_spaces"]
    /\ config["title_case_cells"]
    /\ NumEnabled = 3
    /\ Len(CompletedOps) = 3
    /\ df # LoadedFrame

-----------------------------------------------------------------------------
(* C2: with all six flags false the run calls no transformation and never   *)
(* the progress hook, and it can fail only in the backup, the load or the   *)
(* save; when it returns, the backup file's content equals the input        *)
(* file's, the frame and the workbook written have the row count and the    *)
(* column count of the loaded input, the statistics report equal counts,    *)
(* and operations_applied is empty.                                         *)
AllFlagsFalse == \A f \in Flags : ~config[f]

\* C2: a run with no flag set applies nothing and returns the input as it is
C2_AllFlagsFalseIsNoOp ==
    AllFlagsFalse =>
        /\ OpSteps = <<>>
        /\ CallbackSteps = <<>>
        /\ pc \notin {"loop", "callback"}
        /\ pc = "raised" => Last(trace).kind \in {"backup", "load", "save"}
        /\ Returned =>
              /\ result.backup_path \in DOMAIN fs
              /\ fs[result.backup_path] = fs[file_path]
              /\ NRows(df) = NRows(LoadedFrame)
              /\ NCols(df) = NCols(LoadedFrame)
              /\ Len(fs[result.cleaned_path].rows) = NRows(LoadedFrame)
              /\ Len(fs[result.cleaned_path].header) = NCols(LoadedFrame)
              /\ result.statistics.final.rows
                    = result.statistics.original.rows
              /\ result.statistics.final.columns
                    = result.statistics.original.columns
              /\ result.statistics.operations_applied = <<>>

\* a run with no flag set that returned, on an input with data rows, with a
\* hook supplied
C2_Witness ==
    /\ AllFlagsFalse
    /\ Returned
    /\ has_callback
    /\ NRows(LoadedFrame) = MaxRows
    /\ result.statistics.original.rows = MaxRows

-----------------------------------------------------------------------------
(* C3: with a progress hook supplied, calls of transformations and calls of *)
(* the hook alternate, starting with a transformation: the k-th hook call   *)
(* comes right after the k-th enabled transformation has completed and      *)
(* before the next one starts. When the loop is over the hook has been      *)
(* called exactly once per enabled flag (not at all when none is enabled).  *)
(* Without a hook there is no call.                                         *)
C3_OneCallbackPerOperation ==
    LET oc   == SelectSeq(trace, IsOpOrCallback)
        want == FilterByFlags(ClaimedOrder, config)
    IN
    /\ has_callback =>
          \A k \in DOMAIN oc :
             IF k % 2 = 1
             THEN oc[k].kind = "op" /\ oc[k].name = want[(k + 1) \div 2]
             ELSE oc[k].kind = "callback" /\ oc[k - 1].err = ""
    /\ has_callback /\ pc \in {"save", "stats", "returned"} =>
          /\ Len(CallbackSteps) = NumEnabled
          /\ Len(CompletedOps) = NumEnabled
    /\ ~has_callback => CallbackSteps = <<>>

\* a run with a hook and three flags set that returned after three calls
C3_Witness ==
    /\ Returned
    /\ has_callback
    /\ NumEnabled = 3
    /\ Len(CallbackSteps) = 3

-----------------------------------------------------------------------------
(* C4: the value passed to the k-th call of the hook is the integer part of *)
(* k * 100 / n, n the number of flags set; every value lies in 0..100, the  *)
(* values never decrease, and the last value of a completed loop is 100     *)
(* (33, 66, 100 for n = 3).                                                 *)
C4_PercentValues ==
    LET v == ValuesOf(CallbackSteps) IN
    /\ \A k \in DOMAIN v :
          /\ NumEnabled \in 1..6
          /\ v[k] = (k * 100) \div NumEnabled
          /\ v[k] \in 0..100
          /\ k > 1 => v[k - 1] <= v[k]
    /\ has_callback /\ NumEnabled > 0 /\ pc \in {"save", "stats", "returned"}
          => Last(v) = 100
    /\ NumEnabled = 3 /\ Len(v) = 3 => v = <<33, 66, 100>>

\* runs that reported 33, 66, 100 and 16, 33, 50, 66, 83, 100
C4_Witness ==
    /\ Returned
    /\ ValuesOf(CallbackSteps) = <<33, 66, 100>>

C4_WitnessSix ==
    /\ Returned
    /\ ValuesOf(CallbackSteps) = <<16, 33, 50, 66, 83, 100>>

-----------------------------------------------------------------------------
(* C5: when the backup step fails the run ends there with that error: the   *)
(* backup is the only step taken, the input is not loaded, no               *)
(* transformation and no hook call happen, no cleaned path is computed and  *)
(* the only file written, if any, is the incomplete backup.                 *)
BackupFailed ==
    trace # <<>> /\ trace[1].kind = "backup" /\ trace[1].err # ""

IsBackupName(p) ==
    \E t \in 0..MaxNow : p = backup_name(file_path, strftime(t))

IsCleanedName(p) ==
    \E t \in 0..MaxNow : p = get_cleaned_filename(file_path, strftime(t))

\* C5: a failed backup is the first and the last step of the run
C5_BackupFailureAborts ==
    BackupFailed =>
        /\ pc = "raised"
        /\ raised = trace[1].err
        /\ Len(trace) = 1
        /\ df = EmptyFrame
        /\ enabled_operations = <<>>
        /\ cleaned_path = <<>>
        /\ \A p \in DOMAIN fs :
              p # file_path => IsBackupName(p) /\ ~IsCleanedName(p)

\* the copy failed on a readable workbook, every flag set and a hook given
C5_Witness ==
    /\ BackupFailed
    /\ raised = "OSError"
    /\ file_path \in DOMAIN fs
    /\ fs[file_path].kind = "xlsx"
    /\ NumEnabled = 6
    /\ has_callback

-----------------------------------------------------------------------------
(* C6: once the backup step has succeeded, no later step of the run removes *)
(* or rewrites the backup file: it exists with the content of the input     *)
(* file in every later state, also when load, a transformation, the hook or *)
(* the save fails.                                                          *)
BackupInPlace ==
    backup_path # <<>> =>
        /\ backup_path \in DOMAIN fs
        /\ fs[backup_path] = fs[file_path]

BackupUntouched ==
    backup_path # <<>> =>
        /\ backup_path' = backup_path
        /\ backup_path \in DOMAIN fs'
        /\ fs'[backup_path] = fs[backup_path]

\* C6: the backup is in place in every state and untouched by every step
C6_BackupSurvivesFailure == [](BackupInPlace) /\ [][BackupUntouched]_vars

\* the save failed after the transformations ran, leaving an incomplete
\* cleaned file next to the backup
C6_Witness ==
    /\ pc = "raised"
    /\ backup_path # <<>>
    /\ Last(trace).kind = "save"
    /\ cleaned_path \in DOMAIN fs
    /\ Len(CompletedOps) >= 2
    /\ fs[backup_path].kind = "xlsx"

-----------------------------------------------------------------------------
(* C7: a step that fails is the last step of the run: the run is then in    *)
(* its raised state with the error of that step, exactly one error record   *)
(* is logged and it is the last record, nothing is returned, no step        *)
(* follows and none is taken twice; a run that has not failed has raised    *)
(* nothing and logged no error.                                             *)
IsErrorRecord(r) == r.level = "ERROR"

\* C7: a failure ends the run with its own error, logged once, nothing
\* returned, nothing retried
C7_FailureEndsRun ==
    /\ \A k \in DOMAIN trace :
          trace[k].err # "" => k = Len(trace) /\ pc = "raised"
    /\ \A j, k \in DOMAIN trace :
          j # k => <<trace[j].kind, trace[j].name, trace[j].val>>
                      # <<trace[k].kind, trace[k].name, trace[k].val>>
    /\ pc = "raised" =>
          /\ trace # <<>>
          /\ Last(trace).err # ""
          /\ raised = Last(trace).err
          /\ result = NoResult
          /\ Len(SelectSeq(log, IsErrorRecord)) = 1
          /\ Last(log) = LogRecord("ERROR", raised, 0)
    /\ pc # "raised" =>
          /\ raised = ""
          /\ SelectSeq(log, IsErrorRecord) = <<>>
    /\ result.returned <=> Returned

\* title_case_cells failed on the repeated labels normalize_column_names
\* had produced, after earlier steps had completed
C7_Witness ==
    /\ pc = "raised"
    /\ raised = "AttributeError"
    /\ Last(trace).name = "title_case_cells"
    /\ Len(trace) >= 5

-----------------------------------------------------------------------------
(* C8: from the load on, the frame never has more rows or more columns than *)
(* the loaded input, and the returned statistics have final.rows <=         *)
(* original.rows and final.columns <= original.columns, original being the  *)
(* counts of the loaded input.                                              *)
LoadDone == \E k \in DOMAIN trace : trace[k].kind = "load" /\ trace[k].err = ""

\* C8: rows and columns of the frame never exceed those of the loaded input
C8_CountsNeverGrow ==
    /\ LoadDone =>
          /\ original_stats.rows = NRows(LoadedFrame)
          /\ original_stats.columns = NCols(LoadedFrame)
          /\ NRows(df) <= original_stats.rows
          /\ NCols(df) <= original_stats.columns
    /\ Returned =>
          /\ result.statistics.original = original_stats
          /\ result.statistics.final.rows <= result.statistics.original.rows
          /\ result.statistics.final.columns
                <= result.statistics.original.columns

\* a run that returned fewer rows and fewer columns than it loaded, with
\* the column names normalized
C8_Witness ==
    /\ Returned
    /\ config["normalize_column_names"]
    /\ result.statistics.final.rows < result.statistics.original.rows
    /\ result.statistics.final.columns < result.statistics.original.columns

-----------------------------------------------------------------------------
(* C9: the backup path and the cleaned path computed for the input path of *)
(* a run (on an input file that exists) are different from the input path   *)
(* and from each other, whatever the timestamps, also for an input path     *)
(* without ".xlsx".                                                         *)
C9_PathsDistinct ==
    trace # <<>> /\ file_path \in DOMAIN fs =>
        \A t1, t2 \in 0..MaxNow :
           LET b == backup_name(file_path, strftime(t1))
               c == get_cleaned_filename(file_path, strftime(t2))
           IN b # file_path /\ c # file_path /\ b # c

-----------------------------------------------------------------------------
(* C10: remove_duplicates returns the rows of its argument that are equal   *)
(* to no earlier row (NaN equal to NaN), in the order of the argument, and  *)
(* leaves the columns as they are: the first occurrence of every distinct   *)
(* row is kept and the later ones are dropped.                              *)

\* the frame the last call recorded in trace was given
ArgOfLastCall ==
    ApplyAll(NamesOf(SubSeq(trace, 1, Len(trace) - 1)), LoadedFrame)

LastCallCompleted(name) ==
    /\ pc = "call"
    /\ trace # <<>>
    /\ Last(trace).name = name
    /\ Last(trace).err = ""

IsFirstOccurrence(rows, r) == \A j \in 1..(r - 1) : rows[j] # rows[r]

\* C10: the result of remove_duplicates is the first occurrences, in order
C10_KeepsFirstOccurrences ==
    LastCallCompleted("remove_duplicates") =>
        LET arg   == ArgOfLastCall
            first == {r \in 1..NRows(arg) : IsFirstOccurrence(arg.rows, r)}
        IN
        /\ df.names = arg.names
        /\ df.dtypes = arg.dtypes
        /\ df.rows = SelectIdx(arg.rows, first)
        /\ \A a, b \in 1..NRows(df) : a # b => df.rows[a] # df.rows[b]
        /\ Range(df.rows) = Range(arg.rows)

\* three rows, the third equal to the first and not to the second: the
\* first and the second are returned, in this order
C10_Witness ==
    /\ LastCallCompleted("remove_duplicates")
    /\ Len(trace) = 1
    /\ NRows(LoadedFrame) = 3
    /\ LoadedFrame.rows[1] = LoadedFrame.rows[3]
    /\ LoadedFrame.rows[1] # LoadedFrame.rows[2]
    /\ df.rows = <<LoadedFrame.rows[1], LoadedFrame.rows[2]>>

-----------------------------------------------------------------------------
(* C11: remove_duplicates is idempotent: called on its own result it        *)
(* returns that result unchanged.                                           *)
CalledTwice(name) ==
    /\ LastCallCompleted(name)
    /\ Len(trace) >= 2
    /\ trace[Len(trace) - 1].name = name

C11_RemoveDuplicatesIdempotent ==
    CalledTwice("remove_duplicates") => df = ArgOfLastCall

\* two calls on a frame with three equal rows: the first call left one row
\* and the second call left it alone
C11_Witness ==
    /\ CalledTwice("remove_duplicates")
    /\ NRows(LoadedFrame) = 3
    /\ LoadedFrame.rows[1] = LoadedFrame.rows[2]
    /\ LoadedFrame.rows[2] = LoadedFrame.rows[3]
    /\ NRows(df) = 1

-----------------------------------------------------------------------------
(* C12: trim_spaces is idempotent: called on its own result it returns that *)
(* result unchanged, also for object columns that hold null cells or both   *)
(* texts and numbers.                                                       *)
C12_TrimSpacesIdempotent ==
    CalledTwice("trim_spaces") => df = ArgOfLastCall

\* two calls on a frame whose first column holds a text with a leading
\* space, a number and a null cell: the first call changed all three cells
C12_Witness ==
    /\ CalledTwice("trim_spaces")
    /\ Len(trace) = 2
    /\ NRows(LoadedFrame) = 3
    /\ {LoadedFrame.rows[r][1] : r \in 1..3}
          = {Str(<<" ", "a", "b">>), Num(1), NaN}
    /\ {df.rows[r][1] : r \in 1..3}
          = {Str(<<"a", "b">>), Str(<<"1">>), Str(<<"n", "a", "n">>)}

-----------------------------------------------------------------------------
(* C13: the result of remove_empty_rows has no row whose cells are all      *)
(* null and is the argument's rows with a non-null cell, in their order;    *)
(* the result of remove_empty_columns has no column whose cells are all     *)
(* null and is the argument's columns with a non-null cell, in their order. *)
HasValue(row) == \E c \in DOMAIN row : ~IsNull(row[c])

ColumnCells(d, c) == [r \in 1..NRows(d) |-> d.rows[r][c]]

\* the positions of the columns of arg that have a non-null cell
RECURSIVE ColumnsWithValue(_, _)
ColumnsWithValue(arg, c) ==
    IF c > NCols(arg) THEN <<>>
    ELSE IF HasValue(ColumnCells(arg, c))
         THEN <<c>> \o ColumnsWithValue(arg, c + 1)
         ELSE ColumnsWithValue(arg, c + 1)

C13_NoEmptyRowsOrColumnsLeft ==
    /\ LastCallCompleted("remove_empty_rows") =>
          /\ \A r \in 1..NRows(df) : HasValue(df.rows[r])
          /\ df.rows = SelectSeq(ArgOfLastCall.rows, HasValue)
          /\ df.names = ArgOfLastCall.names
          /\ df.dtypes = ArgOfLastCall.dtypes
    /\ LastCallCompleted("remove_empty_columns") =>
          LET arg  == ArgOfLastCall
              kept == ColumnsWithValue(arg, 1)
          IN
          /\ \A c \in 1..NCols(df) : HasValue(ColumnCells(df, c))
          /\ NRows(df) = NRows(arg)
          /\ df.names = [k \in DOMAIN kept |-> arg.names[kept[k]]]
          /\ df.dtypes = [k \in DOMAIN kept |-> arg.dtypes[kept[k]]]
          /\ \A r \in 1..NRows(df) :
                df.rows[r] = [k \in DOMAIN kept |-> arg.rows[r][kept[k]]]

\* remove_empty_rows dropped the blank row between two rows it kept, one of
\* them with a null cell
C13_Witness ==
    /\ LastCallCompleted("remove_empty_rows")
    /\ Len(trace) = 1
    /\ NRows(LoadedFrame) = 3
    /\ ~HasValue(LoadedFrame.rows[2])
    /\ IsNull(LoadedFrame.rows[1][2])
    /\ df.rows = <<LoadedFrame.rows[1], LoadedFrame.rows[3]>>

\* remove_empty_columns dropped the second column, all null, of three rows
C13_WitnessColumns ==
    /\ LastCallCompleted("remove_empty_columns")
    /\ Len(trace) = 1
    /\ NRows(LoadedFrame) = 3
    /\ NCols(LoadedFrame) = 2
    /\ NCols(df) = 1
    /\ df.names = <<LoadedFrame.names[1]>>

-----------------------------------------------------------------------------
(* C14: normalize_column_names is idempotent: called on its own result it   *)
(* returns that result unchanged, for every column label, also one with a   *)
(* leading, a trailing or repeated underscores such as "a_"; and the label  *)
(* "first_name " becomes "First Name".                                      *)
C14_NormalizeIdempotent ==
    /\ NormalizeName(FirstNameLabel)
          = <<"F", "i", "r", "s", "t", " ", "N", "a", "m", "e">>
    /\ CalledTwice("normalize_column_names") => df = ArgOfLastCall

-----------------------------------------------------------------------------
(* C15: trim_spaces and title_case_cells change cells of object columns     *)
(* only: a column of another dtype holds the same values after the call,    *)
(* and the row count, the column count, the column names and their order    *)
(* are the same.                                                            *)
OnlyObjectColumnsChanged(arg, res) ==
    /\ NRows(res) = NRows(arg)
    /\ NCols(res) = NCols(arg)
    /\ res.names = arg.names
    /\ \A c \in 1..NCols(arg) :
          arg.dtypes[c] # "object" => ColumnCells(res, c) = ColumnCells(arg, c)

C15_OnlyTextColumnsChange ==
    /\ LastCallCompleted("trim_spaces") =>
          OnlyObjectColumnsChanged(ArgOfLastCall, df)
    /\ LastCallCompleted("title_case_cells") =>
          OnlyObjectColumnsChanged(ArgOfLastCall, df)

\* title_case_cells changed the object column and left the numbers and the
\* null of the float64 column next to it alone
C15_Witness ==
    /\ LastCallCompleted("title_case_cells")
    /\ Len(trace) = 1
    /\ LoadedFrame.dtypes = <<"object", "float64">>
    /\ ColumnCells(LoadedFrame, 1) = <<Str(<<"a", "b">>), Str(<<" ", "a", "b">>)>>
    /\ ColumnCells(LoadedFrame, 2) = <<NaN, Num(1)>>
    /\ ColumnCells(df, 1) = <<Str(<<"A", "b">>), Str(<<" ", "A", "b">>)>>
    /\ ColumnCells(df, 2) = <<NaN, Num(1)>>

\* trim_spaces did the same on a frame with an int64 column
C15_WitnessTrim ==
    /\ LastCallCompleted("trim_spaces")
    /\ Len(trace) = 1
    /\ LoadedFrame.dtypes = <<"object", "int64">>
    /\ ColumnCells(LoadedFrame, 1) = <<Str(<<" ", "a", "b">>)>>
    /\ ColumnCells(df, 1) = <<Str(<<"a", "b">>)>>
    /\ ColumnCells(df, 2) = <<Num(1)>>

-----------------------------------------------------------------------------
(* C16: on the sheet with the rows ("a", 1), ("a", 1), (null, null),        *)
(* (" b ", 2) under the columns Name and Val, with exactly                  *)
(* remove_duplicates, remove_empty_rows and trim_spaces enabled, the run    *)
(* writes the rows ("a", 1), ("b", 2), reports original.rows = 4 and        *)
(* final.rows = 2, and returns operations_applied = remove_duplicates,      *)
(* remove_empty_rows, trim_spaces.                                          *)
EndToEndRun ==
    /\ Returned
    /\ fs[file_path] = EndToEndSheet
    /\ config = EndToEndConfig

C16_EndToEndScenario ==
    EndToEndRun =>
       /\ fs[result.cleaned_path] =
             Workbook(ScenarioHeader, << <<Str(<<"a">>), Num(1)>>,
                                         <<Str(<<"b">>), Num(2)>> >>)
       /\ result.statistics.original.rows = 4
       /\ result.statistics.final.rows = 2
       /\ result.statistics.operations_applied =
             <<"remove_duplicates", "remove_empty_rows", "trim_spaces">>

C16_Witness == EndToEndRun /\ has_callback

-----------------------------------------------------------------------------
(* C17: remove_duplicates runs before trim_spaces, so a run with both       *)
(* enabled on rows that differ only in the whitespace around a text keeps   *)
(* them all and, once trimmed, writes identical rows; trim_spaces followed  *)
(* by remove_duplicates would leave no two identical rows.                  *)
HasEqualRows(d) ==
    \E r1, r2 \in 1..NRows(d) : r1 < r2 /\ d.rows[r1] = d.rows[r2]

DifferInWhitespaceOnly(d) ==
    \E r1, r2 \in 1..NRows(d) :
        /\ r1 < r2
        /\ d.rows[r1] # d.rows[r2]
        /\ trim_spaces(d).rows[r1] = trim_spaces(d).rows[r2]

C17_DuplicatesSurviveTrim ==
    ( /\ Returned
      /\ config["remove_duplicates"]
      /\ config["trim_spaces"]
      /\ DifferInWhitespaceOnly(LoadedFrame) )
    => /\ HasEqualRows(df)
       /\ HasEqualRows(read_excel(fs[result.cleaned_path]))
       /\ ~HasEqualRows(remove_duplicates(trim_spaces(LoadedFrame)))

\* the run with the two flags on the rows ("a", 1), (" a ", 1) returned
\* and wrote the row ("a", 1) twice
C17_Witness ==
    /\ Returned
    /\ config = [f \in Flags |-> f \in {"remove_duplicates", "trim_spaces"}]
    /\ LoadedFrame.rows = << <<Str(<<"a">>), Num(1)>>,
                             <<Str(<<" ", "a", " ">>), Num(1)>> >>
    /\ fs[result.cleaned_path].rows = << <<Str(<<"a">>), Num(1)>>,
                                         <<Str(<<"a">>), Num(1)>> >>
    /\ NRows(remove_duplicates(trim_spaces(LoadedFrame))) = 1

-----------------------------------------------------------------------------
(* C18: in a returned run statistics.original describes the frame as        *)
(* loaded, and statistics.final describes the frame that was written to     *)
(* the cleaned file: the file has that many rows, columns and empty cells.  *)
(* The file is written before the final statistics are taken, and the       *)
(* frame is the same at both points.                                        *)
EmptyCellsIn(file) ==
    Cardinality({rc \in (DOMAIN file.rows) \X (DOMAIN file.header) :
                    IsNull(file.rows[rc[1]][rc[2]])})

C18_FinalStatsDescribeWrittenFile ==
    /\ pc = "stats" => fs[cleaned_path] = to_excel(df)
    /\ Returned =>
          LET written == fs[result.cleaned_path]
              final   == result.statistics.final
          IN
          /\ result.statistics.original = get_dataframe_stats(LoadedFrame)
          /\ written = to_excel(df)
          /\ final = get_dataframe_stats(df)
          /\ final.rows = Len(written.rows)
          /\ final.columns = Len(written.header)
          /\ final.empty_cells = EmptyCellsIn(written)

\* a returned run whose transformations dropped a row and that wrote a file
\* with an empty cell
C18_Witness ==
    /\ Returned
    /\ result.statistics.final.rows < result.statistics.original.rows
    /\ result.statistics.final.rows > 0
    /\ EmptyCellsIn(fs[result.cleaned_path]) > 0
    /\ result.statistics.final.empty_cells
          < result.statistics.original.empty_cells

-----------------------------------------------------------------------------
(* C19: the operations of a run are fixed by the flags as they are when     *)
(* the list of operations is built, before the first transformation: when   *)
(* the hook changes flags of the configuration during the run, the          *)
(* transformations called, the number of hook calls, the percentages and    *)
(* operations_applied are those of the flags as they were at the start.     *)
TimesChanged(f) ==
    Cardinality({k \in DOMAIN trace :
                    trace[k].kind = "setflag" /\ trace[k].name = f})

\* the configuration at the start of the run: a flag changed an odd number
\* of times had the opposite value
ConfigAtStart == [f \in Flags |-> config[f] # (TimesChanged(f) % 2 = 1)]

C19_FlagsReadOnce ==
    LET want == FilterByFlags(ClaimedOrder, ConfigAtStart)
        n    == Len(want)
    IN
    /\ IsPrefix(NamesOf(OpSteps), want)
    /\ Len(CallbackSteps) <= Len(CompletedOps)
    /\ \A k \in DOMAIN CallbackSteps :
          CallbackSteps[k].val = (k * 100) \div n
    /\ pc \in {"save", "stats", "returned"} =>
          /\ NamesOf(CompletedOps) = want
          /\ Len(CallbackSteps) = n
          /\ df = ApplyAll(want, LoadedFrame)
    /\ Returned => result.statistics.operations_applied = want

\* a returned run whose hook, after the first operation, cleared the flag
\* of an operation that ran after that, and a run whose hook set the flag
\* of an operation that never ran
C19_Witness ==
    /\ Returned
    /\ \E k, m \in DOMAIN trace :
          /\ k < m
          /\ trace[k].kind = "setflag"
          /\ trace[m].kind = "op"
          /\ trace[m].name = trace[k].name
          /\ ~config[trace[k].name]

C19_WitnessSet ==
    /\ Returned
    /\ \E k \in DOMAIN trace :
          /\ trace[k].kind = "setflag"
          /\ config[trace[k].name]
          /\ trace[k].name \notin Range(NamesOf(OpSteps))
          /\ k < Len(trace) - 2

-----------------------------------------------------------------------------
(* Two calls of clean_excel_file on the same input path at the same time    *)
(* (two threads or two processes): they share the file system and the       *)
(* clock and nothing else. The first call is modelled by the actions above; *)
(* the second by the four actions below, one for each of its steps that     *)
(* reads or writes a file; its transformations touch only its own df and    *)
(* are part of its load step.                                               *)
TwoRunConfigs ==
    {cfg \in Configs :
        \A f \in Flags :
           cfg[f] => f \in {"remove_duplicates", "remove_empty_rows"}}

\* the second call, entered
OtherRun(cfg) ==
    [pc |-> "backup", config |-> cfg, backup_path |-> <<>>,
     cleaned_path |-> <<>>, df |-> EmptyFrame, raised |-> "",
     saved_after_first |-> FALSE]

\* backup_path = self._create_backup(file_path), second call
OtherCreateBackup ==
    /\ other.pc = "backup"
    /\ \E t \in now..MaxNow :
         LET target == backup_name(file_path, strftime(t)) IN
         /\ now' = t
         /\ \/ /\ fs' = WriteFile(fs, target, fs[file_path])
               /\ other' = [other EXCEPT !.pc = "load",
                                         !.backup_path = target]
            \/ /\ fs' \in {fs, WriteFile(fs, target, Garbage)}
               /\ other' = [other EXCEPT !.pc = "raised",
                                         !.raised = "OSError"]
    /\ UNCHANGED <<pc, file_path, config, has_callback, backup_path,
                   cleaned_path, df, original_stats, enabled_operations, i,
                   result, raised, log, trace>>
    /\ UNCHANGED gui

\* df = pd.read_excel(file_path) and the loop over enabled_operations,
\* second call
OtherLoadAndTransform ==
    /\ other.pc = "load"
    /\ \/ other' =
            [other EXCEPT
               !.pc = "save",
               !.df = ApplyAll(FilterByFlags(OperationNames, other.config),
                               read_excel(fs[file_path]))]
       \/ other' = [other EXCEPT !.pc = "raised", !.raised = "OSError"]
    /\ UNCHANGED <<pc, now, fs, file_path, config, has_callback, backup_path,
                   cleaned_path, df, original_stats, enabled_operations, i,
                   result, raised, log, trace>>
    /\ UNCHANGED gui

\* cleaned_path = self._get_cleaned_filename(file_path);
\* df.to_excel(cleaned_path, index=False), second call
OtherSave ==
    /\ other.pc = "save"
    /\ \E t \in now..MaxNow :
         LET target == get_cleaned_filename(file_path, strftime(t)) IN
         /\ now' = t
         /\ \/ /\ fs' = WriteFile(fs, target, to_excel(other.df))
               /\ other' = [other EXCEPT
                              !.pc = "stats",
                              !.cleaned_path = target,
                              !.saved_after_first = (pc \in {"stats",
                                                             "returned"})]
            \/ /\ fs' \in {fs, WriteFile(fs, target, Garbage)}
               /\ other' = [other EXCEPT !.pc = "raised",
                                         !.cleaned_path = target,
                                         !.raised = "OSError"]
    /\ UNCHANGED <<pc, file_path, config, has_callback, backup_path,
                   cleaned_path, df, original_stats, enabled_operations, i,
                   result, raised, log, trace>>
    /\ UNCHANGED gui

\* final_stats; statistics; return, second call
OtherReturn ==
    /\ other.pc = "stats"
    /\ other' = [other EXCEPT !.pc = "returned"]
    /\ UNCHANGED <<pc, now, fs, file_path, config, has_callback, backup_path,
                   cleaned_path, df, original_stats, enabled_operations, i,
                   result, raised, log, trace>>
    /\ UNCHANGED gui

TwoRunsInit ==
    /\ pc = "backup"
    /\ now = 0
    /\ file_path = <<"d">> \o DotXlsx
    /\ fs = WriteFile(<<>>, file_path, EndToEndSheet)
    /\ config \in TwoRunConfigs
    /\ has_callback = FALSE
    /\ backup_path = <<>>
    /\ cleaned_path = <<>>
    /\ df = EmptyFrame
    /\ original_stats = NoStats
    /\ enabled_operations = <<>>
    /\ i = 0
    /\ result = NoResult
    /\ raised = ""
    /\ log = <<>>
    /\ trace = <<>>
    /\ other \in {OtherRun(cfg) : cfg \in TwoRunConfigs}
    /\ gui = NoGui

TwoRunsNext ==
    \/ CreateBackup
    \/ Load
    \/ ApplyOperation
    \/ Save
    \/ Return
    \/ OtherCreateBackup
    \/ OtherLoadAndTransform
    \/ OtherSave
    \/ OtherReturn

SpecTwoRuns == TwoRunsInit /\ [][TwoRunsNext]_vars

-----------------------------------------------------------------------------
(* C20: two runs on the same input path that read the clock in the same     *)
(* second compute the same backup path and the same cleaned path; neither   *)
(* run notices: both return, and the file at the shared cleaned path is the *)
(* output of the run that saved last, the other run's output overwritten,   *)
(* as the shared backup is the copy the later run made.                     *)
FirstSaved == pc \in {"stats", "returned"}
OtherSaved == other.pc \in {"stats", "returned"}

\* the seconds in which the first run read the clock, as its paths show them
FirstBackupSecond ==
    {t \in 0..MaxNow : backup_path = backup_name(file_path, strftime(t))}
FirstSaveSecond ==
    {t \in 0..MaxNow :
        cleaned_path = get_cleaned_filename(file_path, strftime(t))}

\* the seconds in which the second run read the clock
OtherBackupSecond ==
    {t \in 0..MaxNow :
        other.backup_path = backup_name(file_path, strftime(t))}
OtherSaveSecond ==
    {t \in 0..MaxNow :
        other.cleaned_path = get_cleaned_filename(file_path, strftime(t))}

C20_SameSecondSamePaths ==
    /\ backup_path # <<>> /\ other.backup_path # <<>> =>
          /\ Cardinality(FirstBackupSecond) = 1
          /\ Cardinality(OtherBackupSecond) = 1
          /\ FirstBackupSecond = OtherBackupSecond
                <=> backup_path = other.backup_path
          /\ backup_path = other.backup_path =>
                fs[backup_path] = fs[file_path]
    /\ FirstSaved /\ OtherSaved =>
          /\ Cardinality(FirstSaveSecond) = 1
          /\ Cardinality(OtherSaveSecond) = 1
          /\ FirstSaveSecond = OtherSaveSecond
                <=> cleaned_path = other.cleaned_path
          /\ cleaned_path = other.cleaned_path =>
                fs[cleaned_path] =
                   to_excel(IF other.saved_after_first THEN other.df ELSE df)
          /\ raised = "" /\ other.raised = ""

\* both runs returned the same two paths; the file at the cleaned path is
\* the second run's output and not the first's
C20_Witness ==
    /\ Returned
    /\ other.pc = "returned"
    /\ result.backup_path = other.backup_path
    /\ result.cleaned_path = other.cleaned_path
    /\ fs[result.cleaned_path] = to_excel(other.df)
    /\ fs[result.cleaned_path] # to_excel(df)

\* the same with the first run's output in place and the second's lost
C20_WitnessFirstWins ==
    /\ Returned
    /\ other.pc = "returned"
    /\ result.cleaned_path = other.cleaned_path
    /\ fs[result.cleaned_path] = to_excel(df)
    /\ fs[result.cleaned_path] # to_excel(other.df)

-----------------------------------------------------------------------------
(* C22: after trim_spaces or title_case_cells no object column holds a null *)
(* cell: a null cell of such a column has become the text "nan" ("Nan"      *)
(* after title_case_cells). The empty cells the statistics count are then   *)
(* cells of the other columns only, and remove_empty_rows called next drops *)
(* no row of a frame that has an object column.                             *)
NanText == <<"n", "a", "n">>

ObjectColumns(d) == {c \in 1..NCols(d) : d.dtypes[c] = "object"}

NullsOutsideObjectColumns(d) ==
    Cardinality({rc \in (1..NRows(d)) \X ((1..NCols(d)) \ ObjectColumns(d)) :
                    IsNull(d.rows[rc[1]][rc[2]])})

NullsBecameText(arg, res, text) ==
    /\ \A r \in 1..NRows(res) : \A c \in ObjectColumns(res) :
          /\ ~IsNull(res.rows[r][c])
          /\ IsNull(arg.rows[r][c]) => res.rows[r][c] = Str(text)
    /\ get_dataframe_stats(res).empty_cells = NullsOutsideObjectColumns(res)

C22_NullsBecomeText ==
    /\ LastCallCompleted("trim_spaces") =>
          NullsBecameText(ArgOfLastCall, df, NanText)
    /\ LastCallCompleted("title_case_cells") =>
          NullsBecameText(ArgOfLastCall, df, Title(NanText))
    /\ ( /\ LastCallCompleted("remove_empty_rows")
         /\ Len(trace) >= 2
         /\ trace[Len(trace) - 1].name \in {"trim_spaces", "title_case_cells"}
         /\ ObjectColumns(ArgOfLastCall) # {} )
       => df = ArgOfLastCall

\* trim_spaces, then remove_empty_rows, on three rows the second of which
\* was blank: the row holds "nan" in the object column and was kept
C22_Witness ==
    /\ LastCallCompleted("remove_empty_rows")
    /\ Len(trace) = 2
    /\ trace[1].name = "trim_spaces"
    /\ NRows(LoadedFrame) = 3
    /\ LoadedFrame.dtypes = <<"object", "float64">>
    /\ LoadedFrame.rows[2] = <<NaN, NaN>>
    /\ NRows(df) = 3
    /\ df.rows[2] = <<Str(NanText), NaN>>
    /\ get_dataframe_stats(LoadedFrame).empty_cells > 2
    /\ get_dataframe_stats(df).empty_cells = NullsOutsideObjectColumns(df)

\* title_case_cells turned the null of an object column into "Nan"
C22_WitnessTitle ==
    /\ LastCallCompleted("title_case_cells")
    /\ Len(trace) = 1
    /\ \E r \in 1..NRows(df) :
          /\ IsNull(LoadedFrame.rows[r][1])
          /\ df.rows[r][1] = Str(<<"N", "a", "n">>)

-----------------------------------------------------------------------------
(* ExcelCleanerGUI: the handler select_and_clean_file of the clean button   *)
(* and of Control-o, the option checkboxes, and update_progress as the      *)
(* hook of the run. The handler runs on the thread of the window, its       *)
(* dialogs are modal and update_progress serves idle tasks only, so no      *)
(* other handler runs before it has ended. A dialog may fail (TclError).    *)

\* the window after setup_gui: all checkboxes clear, the button enabled
GuiStart ==
    [pc             |-> "idle",
     clean_btn      |-> "normal",
     progress_var   |-> 0,
     progress_label |-> "Ready to clean your Excel files",
     status         |-> "Excel Cleaner Pro ready",
     option_vars    |-> [f \in Flags |-> FALSE],
     runs           |-> 0,
     last           |-> "none"]

\* the checkboxes the user clicks
GuiToggles == {"remove_duplicates", "trim_spaces"}

\* a click on a checkbox
ToggleOption ==
    /\ gui.pc = "idle"
    /\ \E f \in GuiToggles :
         gui' = [gui EXCEPT !.option_vars[f] = ~gui.option_vars[f]]
    /\ UNCHANGED <<pc, now, fs, file_path, config, has_callback, backup_path,
                   cleaned_path, df, original_stats, enabled_operations, i,
                   result, raised, log, trace, other>>

\* the test with no test: the run is started whatever the flags
NoOptionSelectedUnchecked(cfg) == FALSE

\* not any([config.remove_duplicates, ..., config.title_case_cells])
NoOptionSelected(cfg) == ~(\E f \in DOMAIN cfg : cfg[f])

\* select_and_clean_file left without a run: the dialog failed or was
\* cancelled, or the warning was shown
LeftWithoutRun(how) ==
    /\ gui' = [gui EXCEPT !.last = how]
    /\ UNCHANGED <<pc, now, fs, file_path, config, has_callback, backup_path,
                   cleaned_path, df, original_stats, enabled_operations, i,
                   result, raised, log, trace>>

\* select_and_clean_file up to the call of clean_excel_file
select_and_clean_file ==
    /\ gui.pc = "idle"
    /\ \/ \* askopenfilename raises
          LeftWithoutRun("propagated")
       \/ \* the dialog is cancelled: if not file_path: return
          LeftWithoutRun("cancelled")
       \/ \* a file is chosen and no checkbox is set: the warning, return
          /\ NoOptionSelected(gui.option_vars)
          /\ \E how \in {"warned", "propagated"} : LeftWithoutRun(how)
       \/ \* a file is chosen: the button is disabled, the progress is set
          \* to 0 and clean_excel_file is entered
          /\ ~NoOptionSelected(gui.option_vars)
          /\ gui.runs < MaxRuns
          /\ \E path \in DOMAIN fs :
               /\ file_path' = path
               /\ config' = gui.option_vars
               /\ has_callback' = TRUE
               /\ pc' = "backup"
               /\ backup_path' = <<>>
               /\ cleaned_path' = <<>>
               /\ df' = EmptyFrame
               /\ original_stats' = NoStats
               /\ enabled_operations' = <<>>
               /\ i' = 0
               /\ result' = NoResult
               /\ raised' = ""
               /\ trace' = <<>>
               /\ gui' = [gui EXCEPT
                            !.pc = "cleaning",
                            !.clean_btn = "disabled",
                            !.status = "Cleaning in progress...",
                            !.progress_var = 0,
                            !.runs = gui.runs + 1,
                            !.last = "running"]
               /\ UNCHANGED <<now, fs, log>>
    /\ UNCHANGED other

\* update_progress(value) as the hook of the run
update_progress ==
    /\ pc = "callback"
    /\ gui.pc = "cleaning"
    /\ LET value   == Percent(i + 1, total_ops)
           updated == [gui EXCEPT !.progress_var = value,
                                  !.progress_label = "Processing..."]
       IN
       \/ /\ gui' = updated
          /\ trace' = Append(trace, Step("callback", "", value, ""))
          /\ pc' = AfterOperation(i + 1)
          /\ i' = i + 1
          /\ UNCHANGED <<raised, log>>
       \/ \* update_idletasks raises
          /\ gui' = updated
          /\ Fail("callback", "", value, "CallbackError", <<>>)
          /\ UNCHANGED i
    /\ UNCHANGED <<now, fs, file_path, config, has_callback, backup_path,
                   cleaned_path, df, original_stats, enabled_operations,
                   result, other>>

\* the button is enabled again on the success path only
ButtonAfterFailureLeftDisabled == "disabled"

\* finally: self.clean_btn.configure(state="normal"), reached from the
\* handler of the except clause
ButtonAfterFailure == "normal"

\* the except clause and the finally clause, entered with the window as g:
\* the error dialog, then the status, the progress value 0 and the label;
\* when the error dialog raises, only the finally clause
AfterError(g) ==
    { [g EXCEPT !.pc = "idle",
                !.status = "Error occurred",
                !.progress_var = 0,
                !.progress_label = "Ready to clean your Excel files",
                !.clean_btn = ButtonAfterFailure,
                !.last = "failed"],
      [g EXCEPT !.pc = "idle",
                !.clean_btn = ButtonAfterFailure,
                !.last = "propagated"] }

\* clean_excel_file returned: progress 100, the label, show_results, the
\* status, finally the button; show_results may raise
CleaningReturned ==
    /\ gui.pc = "cleaning"
    /\ pc = "returned"
    /\ LET done == [gui EXCEPT
                      !.progress_var = 100,
                      !.progress_label = "Cleaning completed successfully!"]
       IN
       \/ gui' = [done EXCEPT !.pc = "idle",
                              !.status = "Ready",
                              !.clean_btn = "normal",
                              !.last = "success"]
       \/ gui' \in AfterError(done)
    /\ UNCHANGED <<pc, now, fs, file_path, config, has_callback, backup_path,
                   cleaned_path, df, original_stats, enabled_operations, i,
                   result, raised, log, trace, other>>

\* clean_excel_file raised: the except clause, finally the button
CleaningRaised ==
    /\ gui.pc = "cleaning"
    /\ pc = "raised"
    /\ gui' \in AfterError(gui)
    /\ UNCHANGED <<pc, now, fs, file_path, config, has_callback, backup_path,
                   cleaned_path, df, original_stats, enabled_operations, i,
                   result, raised, log, trace, other>>

\* the files the user can choose: the end-to-end sheet, saved as .xlsx and
\* as .xls
GuiInit ==
    /\ pc = "idle"
    /\ now = 0
    /\ file_path = <<>>
    /\ fs = WriteFile(WriteFile(<<>>, <<"d">> \o DotXlsx, EndToEndSheet),
                      <<"d", ".", "x", "l", "s">>, EndToEndSheet)
    /\ config = [f \in Flags |-> FALSE]
    /\ has_callback = FALSE
    /\ backup_path = <<>>
    /\ cleaned_path = <<>>
    /\ df = EmptyFrame
    /\ original_stats = NoStats
    /\ enabled_operations = <<>>
    /\ i = 0
    /\ result = NoResult
    /\ raised = ""
    /\ log = <<>>
    /\ trace = <<>>
    /\ other = NoOtherRun
    /\ gui = GuiStart

GuiNext ==
    \/ ToggleOption
    \/ select_and_clean_file
    \/ CreateBackup
    \/ Load
    \/ ApplyOperation
    \/ update_progress
    \/ Save
    \/ Return
    \/ CleaningReturned
    \/ CleaningRaised

SpecGui == GuiInit /\ [][GuiNext]_vars

-----------------------------------------------------------------------------
(* C21: select_and_clean_file never calls clean_excel_file with all six     *)
(* flags false (it shows the warning and returns) and never calls it when   *)
(* the file dialog gave no path; when it returns without a run no file is   *)
(* created and the progress value is what it was.                           *)
AllClear(cfg) == \A f \in Flags : ~cfg[f]

RunHasFileAndOption ==
    pc # "idle" =>
       /\ ~AllClear(config)
       /\ file_path # <<>>
       /\ has_callback

NoRunLeavesAllAlone ==
    /\ gui.pc = "idle" /\ gui'.pc = "idle" =>
          /\ fs' = fs
          /\ gui'.progress_var = gui.progress_var
          /\ gui'.clean_btn = gui.clean_btn
          /\ <<pc, trace, log, backup_path, cleaned_path>>'
                = <<pc, trace, log, backup_path, cleaned_path>>
    /\ gui.pc = "idle" /\ AllClear(gui.option_vars) => gui'.pc = "idle"
    /\ gui'.last = "warned" /\ gui.last # "warned" =>
          AllClear(gui.option_vars)
    /\ gui.pc = "idle" /\ gui'.pc = "cleaning" =>
          /\ ~AllClear(gui.option_vars)
          /\ config' = gui.option_vars
          /\ file_path' \in DOMAIN fs

\* C21: the run has a file and a flag; a return without a run changes nothing
C21_NoRunWithoutFileOrOption ==
    [](RunHasFileAndOption) /\ [][NoRunLeavesAllAlone]_vars

\* after a run that ended with the progress at 100 and a cleaned file, the
\* checkboxes were cleared and the handler returned after the warning
C21_Witness ==
    /\ gui.last = "warned"
    /\ gui.pc = "idle"
    /\ AllClear(gui.option_vars)
    /\ gui.progress_var = 100
    /\ pc = "returned"
    /\ result.cleaned_path \in DOMAIN fs

\* the same with the dialog cancelled while a checkbox is set
C21_WitnessCancelled ==
    /\ gui.last = "cancelled"
    /\ gui.pc = "idle"
    /\ ~AllClear(gui.option_vars)
    /\ gui.progress_var = 100
    /\ pc = "returned"

-----------------------------------------------------------------------------
(* C23: whenever select_and_clean_file has ended the clean button is in     *)
(* state "normal"; it is disabled during a cleaning run and at no other     *)
(* time, and enabled again after a success and after every failure, a       *)
(* failure of the results dialog included; when the handler returns after   *)
(* a failure the progress value is 0, after a success it is 100.            *)
C23_ButtonEnabledAgain ==
    /\ gui.pc = "idle" => gui.clean_btn = "normal"
    /\ gui.clean_btn = "disabled" <=> gui.pc = "cleaning"
    /\ gui.last = "success" => gui.progress_var = 100 /\ pc = "returned"
    /\ gui.last = "failed" =>
          /\ gui.progress_var = 0
          /\ pc \in {"raised", "returned"}
    /\ gui.pc = "cleaning" <=> gui.last = "running"

\* the run returned, the results dialog failed: button enabled, progress 0
C23_Witness ==
    /\ gui.pc = "idle"
    /\ gui.last = "failed"
    /\ pc = "returned"
    /\ gui.clean_btn = "normal"
    /\ gui.progress_var = 0

\* the run raised after update_progress had shown 50
C23_WitnessRaised ==
    /\ gui.pc = "idle"
    /\ gui.last = "failed"
    /\ pc = "raised"
    /\ \E k \in DOMAIN trace :
          trace[k].kind = "callback" /\ trace[k].val = 50 /\ trace[k].err = ""
    /\ gui.clean_btn = "normal"
    /\ gui.progress_var = 0

\* the run returned and the results were shown
C23_WitnessSuccess ==
    /\ gui.pc = "idle"
    /\ gui.last = "success"
    /\ gui.clean_btn = "normal"
    /\ gui.progress_var = 100
    /\ gui.status = "Ready"

=============================================================================
